---- MODULE Spec2Model ----
(***************************************************************************)
(* Emotion Companion: the emotional-analysis pipeline of backend/nlp.py,   *)
(* the trained-model service of backend/ml_service.py and the enhanced     *)
(* suggestion engine of backend/suggestions.py, as a state machine.        *)
(*                                                                         *)
(* Numbers.  Every score the code returns is rounded to three decimals, so *)
(* a score is modelled as an integer number of thousandths (Scale).  The   *)
(* raw outputs of the external models are modelled on a ten times finer    *)
(* grid (RawScale) so that round(x, 3) is a real conversion.               *)
(* None is modelled as FALSE for a model handle (the code only tests the   *)
(* handles for truthiness).                                                *)
(***************************************************************************)
EXTENDS Integers, Sequences, FiniteSets, TLC

VARIABLES
    sentiment_pipeline,  \* nlp.sentiment_pipeline: TRUE = loaded, FALSE = None
    emotion_pipeline,    \* nlp.emotion_pipeline
    vader_analyzer,      \* nlp.vader_analyzer
    nlp_imported,        \* the module-level code of nlp.py has run
    sentiment_model,     \* ml_service._sentiment_model: TRUE = loaded, FALSE = None
    emotion_model,       \* ml_service._emotion_model
    ml_imported,         \* the module-level code of ml_service.py has run
    hash_seed,           \* the process's string hash seed (orders set iteration)
    threads,             \* the analyze_text calls running concurrently, each
                         \* with its position in the function
    last                 \* the last call: its operation, inputs and result

vars == <<sentiment_pipeline, emotion_pipeline, vader_analyzer, nlp_imported,
          sentiment_model, emotion_model, ml_imported, hash_seed, threads, last>>

\* ------------------------------------------------------------------ bounds
\* Every text of at most MaxWords words is enumerated (and some longer ones).
MaxWords == 1
\* Grid step (in thousandths) of the inputs of the pure mood-score check.
MoodStep == 20
\* The process hash seeds are 0..MaxSeed.
MaxSeed == 1
\* random.sample is enumerated as the picks start, start+stride, ... (cyclically)
\* for every start and every stride in 1..MaxStride.
MaxStride == 1

\* --------------------------------------------------------------- constants
\* round(x, 3): scores are kept in thousandths.
Scale == 1000
\* resolution of the raw model outputs, before rounding
RawScale == 10 * Scale

NoValue == [none |-> TRUE]
\* an exception leaving a function
Raised == [raised |-> TRUE]

\* ----------------------------------------------------------------- numbers
Min(a, b) == IF a < b THEN a ELSE b
Max(a, b) == IF a > b THEN a ELSE b
Abs(a) == IF a < 0 THEN -a ELSE a

\* Python's round(): the integer nearest to n/d, a tie going to the even one.
RoundHalfEven(n, d) ==
    LET q == n \div d
        r == n % d
    IN  IF 2 * r < d THEN q
        ELSE IF 2 * r > d THEN q + 1
        ELSE IF q % 2 = 0 THEN q ELSE q + 1

\* round(x, 3) of a raw value: thousandths.
Round3(raw) == RoundHalfEven(raw * Scale, RawScale)

\* -------------------------------------------------------------- mood score
\* Mutant: the rounded score is returned unclamped.
calculate_mood_score_noclamp(sentiment_score, emotion_intensity) ==
    LET base_score == (sentiment_score + Scale) * 5
        adjusted_score == IF sentiment_score > 0
                          THEN base_score + emotion_intensity * 2
                          ELSE base_score - emotion_intensity * 2
    IN  RoundHalfEven(adjusted_score, Scale)

\* Mutant: a sentiment score of exactly 0 takes the adding branch.
calculate_mood_score_ge(sentiment_score, emotion_intensity) ==
    LET base_score == (sentiment_score + Scale) * 5
        adjusted_score == IF sentiment_score >= 0
                          THEN base_score + emotion_intensity * 2
                          ELSE base_score - emotion_intensity * 2
    IN  Max(0, Min(10, RoundHalfEven(adjusted_score, Scale)))

\* Mutant: the intensity is subtracted for a positive sentiment and added
\* otherwise.
calculate_mood_score_swapped(sentiment_score, emotion_intensity) ==
    LET base_score == (sentiment_score + Scale) * 5
        adjusted_score == IF sentiment_score > 0
                          THEN base_score - emotion_intensity * 2
                          ELSE base_score + emotion_intensity * 2
    IN  Max(0, Min(10, RoundHalfEven(adjusted_score, Scale)))

\* Mutant: the intensity weighs 5 instead of 2.
calculate_mood_score_weight(sentiment_score, emotion_intensity) ==
    LET base_score == (sentiment_score + Scale) * 5
        adjusted_score == IF sentiment_score > 0
                          THEN base_score + emotion_intensity * 5
                          ELSE base_score - emotion_intensity * 5
    IN  Max(0, Min(10, RoundHalfEven(adjusted_score, Scale)))

\* calculate_mood_score: scores in thousandths, the result an integer.
calculate_mood_score(sentiment_score, emotion_intensity) ==
    LET base_score == (sentiment_score + Scale) * 5
        adjusted_score == IF sentiment_score > 0
                          THEN base_score + emotion_intensity * 2
                          ELSE base_score - emotion_intensity * 2
    IN  Max(0, Min(10, RoundHalfEven(adjusted_score, Scale)))

\* The formula as documented: clamp the adjusted score, then round.
DocumentedMoodScore(s, i) ==
    LET base == (s + Scale) * 5
        adjusted == IF s > 0 THEN base + 2 * i ELSE base - 2 * i
        clamped == Max(0, Min(10 * Scale, adjusted))
    IN  RoundHalfEven(clamped, Scale)

\* -------------------------------------------------------------------- text
\* A text is a sequence of words (whitespace runs between them are abstracted to
\* one separator).  Words are written as in the input, with their casing.
\* A word may carry trailing punctuation ("deadline,").
\* Vocab: the words of the enumerated texts; the sample texts use a few more.
Vocab == {"Work", "happy", "unhappy", "the"}

\* str.lower() on a word or a label.
Lower(w) ==
    CASE w = "Work"    -> "work"
      [] w = "Fear"    -> "fear"
      [] w = "SADNESS" -> "sadness"
      [] OTHER         -> w

LowerAll(ws) == [k \in 1..Len(ws) |-> Lower(ws[k])]

\* The word ends in a non-word character, and the word without it.
Punctuated(w) == w = "deadline,"
Bare(w) == IF w = "deadline," THEN "deadline" ELSE w

\* The keywords of the code's keyword lists that occur as a substring of a
\* (lower-cased) word: `keyword in text` is a substring test, and no keyword
\* holds a space, so a keyword occurs in a text iff it occurs in one of its words.
KeywordsIn(w) ==
    CASE w = "work"    -> {"work"}
      [] w = "happy"   -> {"happy"}
      [] w = "unhappy" -> {"happy", "unhappy"}
      [] w = "sad"     -> {"sad"}
      [] w = "scared"  -> {"scared"}
      [] w = "friend"  -> {"friend"}
      [] w = "deadline" -> {"deadline"}
      [] w = "deadline," -> {"deadline"}
      [] w = "sick"    -> {"sick"}
      [] w = "school"  -> {"school"}
      [] OTHER         -> {}

\* keyword in text  (text a sequence of lower-cased words)
Occurs(keyword, text) == \E k \in 1..Len(text) : keyword \in KeywordsIn(text[k])

\* preprocess: lower-case, collapse whitespace, strip.
preprocess(text) == LowerAll(text)

RECURSIVE SeqSum(_)
SeqSum(s) == IF s = <<>> THEN 0 ELSE Head(s) + SeqSum(Tail(s))

\* len() of the words joined by single spaces.
JoinedLen(ws) ==
    IF ws = <<>> THEN 0
    ELSE SeqSum([k \in 1..Len(ws) |-> Len(ws[k])]) + (Len(ws) - 1)

Take(s, n) == SubSeq(s, 1, Min(n, Len(s)))

RECURSIVE SelectLonger(_, _)
\* [t for t in s if len(t) > n], t a phrase (a sequence of words)
SelectLonger(s, n) ==
    IF s = <<>> THEN <<>>
    ELSE IF JoinedLen(Head(s)) > n
         THEN <<Head(s)>> \o SelectLonger(Tail(s), n)
         ELSE SelectLonger(Tail(s), n)

\* ------------------------------------------------------- emotion keywords
EmotionNames == <<"happy", "sad", "angry", "anxious", "fear", "calm", "surprise">>

EMOTION_KEYWORDS ==
    [happy |-> {"happy", "joy", "excited", "great", "wonderful", "amazing",
                "fantastic", "delighted", "cheerful", "pleased", "glad", "content",
                "thrilled"},
     sad |-> {"sad", "unhappy", "depressed", "down", "miserable", "gloomy",
              "sorrowful", "heartbroken", "disappointed", "upset", "blue",
              "melancholy"},
     angry |-> {"angry", "mad", "furious", "irritated", "annoyed", "frustrated",
                "rage", "outraged", "hostile", "resentful", "bitter"},
     anxious |-> {"anxious", "worried", "nervous", "stressed", "tense", "uneasy",
                  "fearful", "concerned", "apprehensive", "restless", "panic"},
     fear |-> {"afraid", "scared", "terrified", "frightened", "alarmed",
               "horrified", "threatened", "intimidated", "dread"},
     calm |-> {"calm", "peaceful", "relaxed", "serene", "tranquil", "composed",
               "balanced", "centered", "quiet", "still"},
     surprise |-> {"surprised", "shocked", "astonished", "amazed", "startled",
                   "stunned", "unexpected", "sudden"}]

\* ------------------------------------------------------------- emoji table
\* The emoji themselves are written as ASCII names.
NeutralEmoji == "neutral_face"

\* The built-in table load_emoji_map falls back to.
BuiltinEmojiMap ==
    [happy |-> [emoji |-> "smiling_face",
                suggestions |-> <<"Celebrate this positive moment!",
                                  "Share your joy with someone",
                                  "Write down what made you happy">>],
     sad |-> [emoji |-> "crying_face",
              suggestions |-> <<"It's okay to feel sad. Be gentle with yourself",
                                "Try some deep breathing exercises",
                                "Reach out to a friend or loved one">>],
     angry |-> [emoji |-> "angry_face",
                suggestions |-> <<"Take 10 deep breaths before reacting",
                                  "Go for a walk to cool down",
                                  "Write down what's making you angry">>],
     anxious |-> [emoji |-> "anxious_face",
                  suggestions |-> <<"Practice the 5-4-3-2-1 grounding technique",
                                    "Focus on what you can control",
                                    "Try progressive muscle relaxation">>],
     fear |-> [emoji |-> "fearful_face",
               suggestions |-> <<"Remind yourself that you are safe right now",
                                 "Talk to someone you trust",
                                 "Practice deep breathing">>],
     calm |-> [emoji |-> "relieved_face",
               suggestions |-> <<"Enjoy this peaceful moment",
                                 "Practice gratitude",
                                 "Maintain your current routine">>],
     surprise |-> [emoji |-> "astonished_face",
                   suggestions |-> <<"Take a moment to process this",
                                     "Write about how you feel",
                                     "Talk it through with someone">>],
     neutral |-> [emoji |-> NeutralEmoji,
                  suggestions |-> <<"Check in with yourself regularly",
                                    "Try journaling about your day",
                                    "Practice mindfulness">>]]

\* A table an operator may put in utils/emoji_map.json: an entry with six
\* suggestions, an entry without suggestions, and no "neutral" entry.
CustomEmojiMap ==
    [happy |-> [emoji |-> "party_face",
                suggestions |-> <<"custom 1", "custom 2", "custom 3", "custom 4",
                                  "custom 5", "custom 6">>],
     sadness |-> [emoji |-> "pensive_face"]]

\* What utils/emoji_map.json may be: absent, not parseable as JSON, JSON that is
\* not an object (a list), or a JSON object.
EmojiFiles == {"missing", "invalid_json", "json_list", "json_object"}

\* load_emoji_map: json.load's value when the file exists and parses, whatever
\* its shape; the built-in table when the file is missing or json.load raises.
load_emoji_map(emojiFile) ==
    CASE emojiFile = "json_object" -> [isdict |-> TRUE, map |-> CustomEmojiMap]
      [] emojiFile = "json_list"   -> [isdict |-> FALSE, map |-> <<>>]
      [] OTHER                     -> [isdict |-> TRUE, map |-> BuiltinEmojiMap]

\* emoji_map.get(primary_emotion, {}).get("emoji", <neutral emoji>)
EmojiOf(emoji_map, primary_emotion) ==
    IF primary_emotion \in DOMAIN emoji_map.map
       /\ "emoji" \in DOMAIN emoji_map.map[primary_emotion]
    THEN emoji_map.map[primary_emotion].emoji
    ELSE NeutralEmoji

\* ----------------------------------------------------- external libraries
\* What the external models answer for the text of one call.  The answers are
\* inputs of the call: a raw transformer output, a raw lexicon compound, or an
\* exception thrown by the library.
NoAnswer == [throws |-> FALSE, label |-> "na", score |-> 0]
Throws == [throws |-> TRUE, label |-> "na", score |-> 0]

\* raw confidences of the transformer sentiment pipeline
ConfSamples == {5005, 9998}
\* raw compound scores of the lexicon analyzer (it rounds to four decimals)
CompoundSamples == {-9000, -500, 0, 496, 8125}

HfSentAnswers ==
    {Throws} \cup {[throws |-> FALSE, label |-> l, score |-> c] :
                      l \in {"POSITIVE", "NEGATIVE"}, c \in ConfSamples}
VaderAnswers ==
    {Throws} \cup {[throws |-> FALSE, label |-> "compound", score |-> c] :
                      c \in CompoundSamples}

\* raw score vectors of the transformer emotion pipeline, in the order returned
HfEmoVectors ==
    {<<[label |-> "sadness", score |-> 9321], [label |-> "fear", score |-> 400],
       [label |-> "neutral", score |-> 150], [label |-> "anger", score |-> 60],
       [label |-> "disgust", score |-> 40], [label |-> "surprise", score |-> 20],
       [label |-> "joy", score |-> 9]>>,
     <<[label |-> "neutral", score |-> 3996], [label |-> "joy", score |-> 4004],
       [label |-> "surprise", score |-> 1500], [label |-> "sadness", score |-> 300],
       [label |-> "fear", score |-> 100], [label |-> "anger", score |-> 60],
       [label |-> "disgust", score |-> 40]>>}
HfEmoAnswers ==
    {[throws |-> TRUE, results |-> <<>>]}
    \cup {[throws |-> FALSE, results |-> v] : v \in HfEmoVectors}
NoEmoAnswer == [throws |-> FALSE, results |-> <<>>]

\* the keyword extractor: ranks in one order, in the other, or throws
RakeAnswers == {"ranked", "ranked_reverse", "throws"}

\* -------------------------------------------------------------- sentiment
FallbackSentiment ==
    [label |-> "NEUTRAL", score |-> 0, confidence |-> 0, method |-> "fallback"]

\* Mutant: the lexicon thresholds are strict.
sentiment_strictthreshold(text, ext) ==
    IF sentiment_pipeline /\ ~ext.hfSent.throws
    THEN [label |-> ext.hfSent.label,
          score |-> Round3(IF ext.hfSent.label = "POSITIVE"
                           THEN ext.hfSent.score ELSE -ext.hfSent.score),
          confidence |-> Round3(ext.hfSent.score), method |-> "huggingface"]
    ELSE IF vader_analyzer /\ ~ext.vader.throws
    THEN [label |-> IF ext.vader.score > 500 THEN "POSITIVE"
                    ELSE IF ext.vader.score < -500 THEN "NEGATIVE" ELSE "NEUTRAL",
          score |-> Round3(ext.vader.score),
          confidence |-> Round3(Abs(ext.vader.score)), method |-> "vader"]
    ELSE FallbackSentiment

\* Mutant: the transformer's confidence is the score whatever the label.
sentiment_unsigned(text, ext) ==
    IF sentiment_pipeline /\ ~ext.hfSent.throws
    THEN [label |-> ext.hfSent.label, score |-> Round3(ext.hfSent.score),
          confidence |-> Round3(ext.hfSent.score), method |-> "huggingface"]
    ELSE IF vader_analyzer /\ ~ext.vader.throws
    THEN [label |-> IF ext.vader.score >= 500 THEN "POSITIVE"
                    ELSE IF ext.vader.score <= -500 THEN "NEGATIVE" ELSE "NEUTRAL",
          score |-> Round3(ext.vader.score),
          confidence |-> Round3(Abs(ext.vader.score)), method |-> "vader"]
    ELSE FallbackSentiment

\* Mutant: an exception of the lexicon analyzer is not caught.
sentiment_uncaught(text, ext) ==
    IF sentiment_pipeline /\ ~ext.hfSent.throws
    THEN [label |-> ext.hfSent.label,
          score |-> Round3(IF ext.hfSent.label = "POSITIVE"
                           THEN ext.hfSent.score ELSE -ext.hfSent.score),
          confidence |-> Round3(ext.hfSent.score), method |-> "huggingface"]
    ELSE IF vader_analyzer /\ ext.vader.throws
    THEN [raised |-> TRUE, label |-> "na", score |-> 0, confidence |-> 0,
          method |-> "raised"]
    ELSE IF vader_analyzer
    THEN [label |-> IF ext.vader.score >= 500 THEN "POSITIVE"
                    ELSE IF ext.vader.score <= -500 THEN "NEGATIVE" ELSE "NEUTRAL",
          score |-> Round3(ext.vader.score),
          confidence |-> Round3(Abs(ext.vader.score)), method |-> "vader"]
    ELSE FallbackSentiment

\* sentiment(text): transformer pipeline, then lexicon, then the fixed fallback.
sentiment(text, ext) ==
    IF sentiment_pipeline /\ ~ext.hfSent.throws
    THEN LET label == ext.hfSent.label
             confidence == ext.hfSent.score
             score == IF label = "POSITIVE" THEN confidence ELSE -confidence
         IN  [label |-> label, score |-> Round3(score),
              confidence |-> Round3(confidence), method |-> "huggingface"]
    ELSE IF vader_analyzer /\ ~ext.vader.throws
    THEN LET compound == ext.vader.score
             label == IF compound >= 500 THEN "POSITIVE"
                      ELSE IF compound <= -500 THEN "NEGATIVE"
                      ELSE "NEUTRAL"
         IN  [label |-> label, score |-> Round3(compound),
              confidence |-> Round3(Abs(compound)), method |-> "vader"]
    ELSE FallbackSentiment

\* ----------------------------------------------------------------- emotion
\* An emotion_scores dict is a sequence of [label, score] in insertion order.
Labels(scores) == {scores[k].label : k \in 1..Len(scores)}
Values(scores) == {scores[k].score : k \in 1..Len(scores)}
SetMax(S) == CHOOSE x \in S : \A y \in S : y <= x

\* max(emotion_scores.items(), key=lambda x: x[1])[0]: the first maximum.
ArgMaxFirst(scores) ==
    LET k == CHOOSE j \in 1..Len(scores) :
                 /\ \A h \in 1..Len(scores) : scores[h].score <= scores[j].score
                 /\ \A h \in 1..(j - 1) : scores[h].score < scores[j].score
    IN  scores[k].label

\* Mutant: the scaled score is not capped at 1.0.
KeywordScore_unclamped(emotion_name, text_lower) ==
    LET count == Cardinality({kw \in EMOTION_KEYWORDS[emotion_name] :
                                 Occurs(kw, text_lower)})
        word_count == Max(Len(text_lower), 1)
    IN  RoundHalfEven(count * 10 * Scale, word_count)

\* the keyword tier's score of one emotion
KeywordScore(emotion_name, text_lower) ==
    LET count == Cardinality({kw \in EMOTION_KEYWORDS[emotion_name] :
                                 Occurs(kw, text_lower)})
        word_count == Max(Len(text_lower), 1)
    IN  RoundHalfEven(Min(count * 10 * Scale, word_count * Scale), word_count)

KeywordScores(text_lower) ==
    [k \in 1..Len(EmotionNames) |->
        [label |-> EmotionNames[k], score |-> KeywordScore(EmotionNames[k], text_lower)]]

\* emotion(text): transformer pipeline, then keyword matching.  A value of
\* [raised |-> TRUE] is an exception leaving the function.
emotion(text, ext) ==
    LET emoji_map == load_emoji_map(ext.emojiFile)
    IN  IF emotion_pipeline /\ ~ext.hfEmo.throws /\ emoji_map.isdict
        THEN LET emotion_scores ==
                     [k \in 1..Len(ext.hfEmo.results) |->
                         [label |-> ext.hfEmo.results[k].label,
                          score |-> Round3(ext.hfEmo.results[k].score)]]
                 primary_emotion == ArgMaxFirst(emotion_scores)
             IN  [raised |-> FALSE, primary_emotion |-> primary_emotion,
                  emotion_scores |-> emotion_scores,
                  emoji |-> EmojiOf(emoji_map, primary_emotion),
                  method |-> "huggingface"]
        ELSE LET text_lower == LowerAll(text)
                 emotion_scores == KeywordScores(text_lower)
                 primary_emotion ==
                     IF emotion_scores # <<>> THEN ArgMaxFirst(emotion_scores)
                     ELSE "neutral"
             IN  IF ~emoji_map.isdict THEN Raised
                 ELSE [raised |-> FALSE, primary_emotion |-> primary_emotion,
                       emotion_scores |->
                           IF emotion_scores # <<>> THEN emotion_scores
                           ELSE <<[label |-> "neutral", score |-> 500]>>,
                       emoji |-> EmojiOf(emoji_map, primary_emotion),
                       method |-> "keywords"]

\* ------------------------------------------------------------------ themes
\* A theme is a phrase: a sequence of lower-cased words.
\* Stopwords of the keyword extractor (the part of its list over the vocabulary).
RakeStopwords == {"the", "a", "an", "and", "or", "but", "i", "my", "so"}

RECURSIVE RakePhrases(_, _)
\* The candidate phrases of the keyword extractor: the maximal runs of words
\* between stopwords and punctuation, lower-cased, in text order.  `run` is the
\* run being read.
RakePhrases(words, run) ==
    IF words = <<>> THEN (IF run = <<>> THEN <<>> ELSE <<run>>)
    ELSE LET w == Lower(Head(words))
         IN  IF Bare(w) \in RakeStopwords
             THEN (IF run = <<>> THEN <<>> ELSE <<run>>)
                  \o RakePhrases(Tail(words), <<>>)
             ELSE IF Punctuated(w)
             THEN <<Append(run, Bare(w))>> \o RakePhrases(Tail(words), <<>>)
             ELSE RakePhrases(Tail(words), Append(run, w))

Reverse(s) == [k \in 1..Len(s) |-> s[Len(s) + 1 - k]]

\* rake.get_ranked_phrases()
RankedPhrases(text, answer) ==
    IF answer = "ranked_reverse" THEN Reverse(RakePhrases(text, <<>>))
    ELSE RakePhrases(text, <<>>)

\* The lower-cased vocabulary in a fixed order.
WordOrder ==
    <<"work", "happy", "unhappy", "the", "sad", "scared", "friend", "deadline",
      "deadline,", "school">>

Rotate(s, n) ==
    IF s = <<>> THEN s
    ELSE [k \in 1..Len(s) |-> s[((k - 1 + n) % Len(s)) + 1]]

\* Mutant: the iteration order changes from one call to the next.
ListOfSet_percall(S) ==
    Rotate(SelectSeq(WordOrder, LAMBDA w : w \in S),
           IF last.op = "analyze_text" THEN hash_seed + 1 ELSE hash_seed)

\* list(set(words)): the iteration order of a set of strings is fixed by the
\* process's hash seed.
ListOfSet(S) == Rotate(SelectSeq(WordOrder, LAMBDA w : w \in S), hash_seed)

common_words == {"the", "a", "an", "and", "or", "but", "in", "on", "at", "to", "for"}

\* Mutant: the word-frequency fallback is not truncated.
extract_themes_untruncated(text, top_n, answer) ==
    IF answer # "throws"
    THEN Take(SelectLonger(Take(RankedPhrases(text, answer), top_n), 3), top_n)
    ELSE LET lowered == LowerAll(text)
             words == {lowered[k] : k \in {j \in 1..Len(lowered) :
                          lowered[j] \notin common_words /\ Len(lowered[j]) > 3}}
             unique_words == ListOfSet(words)
         IN  [k \in 1..Len(unique_words) |-> <<unique_words[k]>>]

\* extract_themes(text, top_n): the ranked phrases, or on an exception of the
\* extractor the distinct longer words.
extract_themes(text, top_n, answer) ==
    IF answer # "throws"
    THEN LET ranked == RankedPhrases(text, answer)
             themes == SelectLonger(Take(ranked, top_n), 3)
         IN  Take(themes, top_n)
    ELSE LET lowered == LowerAll(text)
             words == {lowered[k] : k \in {j \in 1..Len(lowered) :
                          lowered[j] \notin common_words /\ Len(lowered[j]) > 3}}
             unique_words == Take(ListOfSet(words), top_n)
         IN  [k \in 1..Len(unique_words) |-> <<unique_words[k]>>]

\* ------------------------------------------------------ basic suggestions
DefaultSuggestions ==
    <<"Take a few deep breaths", "Write down your thoughts",
      "Talk to someone you trust">>

work_keywords == {"work", "job", "career", "boss", "colleague", "project"}
relationship_keywords == {"friend", "family", "partner", "relationship", "love"}

\* any(keyword in " ".join(themes).lower() for keyword in keywords)
ThemesHit(themes, keywords) ==
    \E k \in 1..Len(themes) : \E kw \in keywords : Occurs(kw, LowerAll(themes[k]))

\* Mutant: the theme suggestions come before the base suggestions.
generate_suggestions_themesfirst(primary_emotion, themes, emojiFile) ==
    LET emoji_map == load_emoji_map(emojiFile)
    IN  IF ~emoji_map.isdict THEN [raised |-> TRUE, suggestions |-> <<>>]
        ELSE
        LET base_suggestions ==
                IF primary_emotion \in DOMAIN emoji_map.map
                   /\ "suggestions" \in DOMAIN emoji_map.map[primary_emotion]
                THEN emoji_map.map[primary_emotion].suggestions
                ELSE DefaultSuggestions
            work == IF ThemesHit(themes, work_keywords)
                    THEN <<"Consider taking a short break from work tasks">>
                    ELSE <<>>
            relationship == IF ThemesHit(themes, relationship_keywords)
                            THEN <<"Reach out to someone you care about">>
                            ELSE <<>>
        IN  [raised |-> FALSE,
             suggestions |-> Take(work \o relationship \o base_suggestions, 5)]

\* generate_suggestions(primary_emotion, themes)
generate_suggestions(primary_emotion, themes, emojiFile) ==
    LET emoji_map == load_emoji_map(emojiFile)
    IN  IF ~emoji_map.isdict THEN [raised |-> TRUE, suggestions |-> <<>>]
        ELSE
        LET base_suggestions ==
                IF primary_emotion \in DOMAIN emoji_map.map
                   /\ "suggestions" \in DOMAIN emoji_map.map[primary_emotion]
                THEN emoji_map.map[primary_emotion].suggestions
                ELSE DefaultSuggestions
            work == IF ThemesHit(themes, work_keywords)
                    THEN <<"Consider taking a short break from work tasks">>
                    ELSE <<>>
            relationship == IF ThemesHit(themes, relationship_keywords)
                            THEN <<"Reach out to someone you care about">>
                            ELSE <<>>
            theme_suggestions == work \o relationship
            all_suggestions == base_suggestions \o theme_suggestions
        IN  [raised |-> FALSE, suggestions |-> Take(all_suggestions, 5)]

\* ------------------------------------------------------------ highlighting
\* The pattern \b<theme>\b, IGNORECASE, matches at word k of the text: the
\* words agree up to case, the last up to the punctuation that follows it in
\* the text.  A theme ending in punctuation matches nowhere: the closing \b
\* wants a word character next, and a space or the end follows.
MatchesAt(theme, text, k) ==
    LET n == Len(theme)
    IN  /\ k + n - 1 <= Len(text)
        /\ ~Punctuated(theme[n])
        /\ \A i \in 1..(n - 1) : Lower(text[k + i - 1]) = theme[i]
        /\ Bare(Lower(text[k + n - 1])) = theme[n]

\* the matched substring, as written in the text
Matched(theme, text, k) ==
    [i \in 1..Len(theme) |->
        IF i = Len(theme) THEN Bare(text[k + i - 1]) ELSE text[k + i - 1]]

RECURSIVE FindAll(_, _, _)
\* pattern.findall(text): the non-overlapping matches from word k on, in order.
FindAll(theme, text, k) ==
    IF k + Len(theme) - 1 > Len(text) THEN <<>>
    ELSE IF MatchesAt(theme, text, k)
         THEN <<Matched(theme, text, k)>> \o FindAll(theme, text, k + Len(theme))
         ELSE FindAll(theme, text, k + 1)

\* Mutant: the themes are searched in the cleaned (lower-cased) text.
HighlightedPhrases_cleaned(text, themes) ==
    LET found == {themes[k] : k \in {j \in 1..Len(themes) :
                                        FindAll(themes[j], LowerAll(text), 1) # <<>>}}
    IN  [theme \in found |-> Take(FindAll(theme, LowerAll(text), 1), 3)]

HighlightedPhrases(text, themes) ==
    LET found == {themes[k] : k \in {j \in 1..Len(themes) :
                                        FindAll(themes[j], text, 1) # <<>>}}
    IN  [theme \in found |-> Take(FindAll(theme, text, 1), 3)]

\* ------------------------------------------------------------ analyze_text
\* analyze_text after its calls of sentiment() and emotion(): themes, mood
\* score, suggestions, highlighting and the assembled result.
analyze_rest(text, ext, sentiment_result, emotion_result) ==
        IF emotion_result.raised THEN Raised
        ELSE
        LET themes == extract_themes(text, 5, ext.rake)
            emotion_intensity == SetMax(Values(emotion_result.emotion_scores))
            mood_score == calculate_mood_score(sentiment_result.score, emotion_intensity)
            suggestions == generate_suggestions(emotion_result.primary_emotion,
                                                themes, ext.emojiFile)
        IN  IF suggestions.raised THEN Raised
            ELSE [raised |-> FALSE,
                  sentiment |-> sentiment_result,
                  emotion |-> emotion_result,
                  mood_score |-> mood_score,
                  themes |-> themes,
                  highlighted_phrases |-> HighlightedPhrases(text, themes),
                  suggestions |-> suggestions.suggestions,
                  metadata |-> [text_length |-> JoinedLen(text),
                                word_count |-> Len(text),
                                models_used |-> [sentiment |-> sentiment_result.method,
                                                 emotion |-> emotion_result.method]]]

\* analyze_text(text): [raised |-> TRUE] is an exception leaving the function.
analyze_text(text, ext) ==
    LET cleaned_text == preprocess(text)
    IN  analyze_rest(text, ext, sentiment(cleaned_text, ext),
                     emotion(cleaned_text, ext))

\* --------------------------------------------------- the journal endpoint
\* What the database client answers during one request: creating the client,
\* the upsert of the user row, the insert of the journal row.
DbAnswers ==
    {[client |-> "throws", upsert |-> "ok", insert |-> "no_row"]}
    \cup {[client |-> "ok", upsert |-> u, insert |-> i] :
              u \in {"ok", "throws"}, i \in {"row", "no_row", "throws"}}

\* the columns of the row to insert
JournalData(user_id, text, analysis) ==
    [user_id |-> user_id,
     text |-> text,
     mood_score |-> analysis.mood_score,
     sentiment |-> analysis.sentiment.score,
     sentiment_label |-> analysis.sentiment.label,
     emotion |-> analysis.emotion.primary_emotion,
     emotion_scores |-> analysis.emotion.emotion_scores,
     themes |-> analysis.themes,
     highlighted_phrases |-> analysis.highlighted_phrases,
     suggestions |-> analysis.suggestions,
     metadata |-> analysis.metadata]

\* Mutant: a failure of the user upsert leaves the function.
create_journal_entry_upsertraises(user_id, text, analysis, db) ==
    IF db.client = "throws"
    THEN [raised |-> TRUE, row |-> NoValue, db_calls |-> <<>>]
    ELSE IF db.upsert = "throws"
    THEN [raised |-> TRUE, row |-> NoValue, db_calls |-> <<"users.upsert">>]
    ELSE [raised |-> db.insert = "throws",
          row |-> IF db.insert = "row" THEN JournalData(user_id, text, analysis)
                  ELSE NoValue,
          db_calls |-> <<"users.upsert", "journal_entries.insert">>]

\* crud.create_journal_entry: the inserted row, None (row = NoValue) when the
\* insert returns no data, or an exception; db_calls are the statements it
\* executed.
create_journal_entry(user_id, text, analysis, db) ==
    IF db.client = "throws"
    THEN [raised |-> TRUE, row |-> NoValue, db_calls |-> <<>>]
    ELSE LET data == JournalData(user_id, text, analysis)
         IN  [raised |-> db.insert = "throws",
              row |-> IF db.insert = "row" THEN data ELSE NoValue,
              db_calls |-> <<"users.upsert", "journal_entries.insert">>]

\* an HTTPException(status_code=500, detail=...)
Http500(detail, db_calls) ==
    [status |-> 500, detail |-> detail, entry |-> NoValue, db_calls |-> db_calls]

\* app.create_journal(entry): the response the caller gets.
create_journal(user_id, text, ext, db) ==
    LET analysis == analyze_text(text, ext)
    IN  IF analysis.raised THEN Http500("Internal server error", <<>>)
        ELSE LET db_entry == create_journal_entry(user_id, text, analysis, db)
             IN  IF db_entry.raised
                 THEN Http500("Internal server error", db_entry.db_calls)
                 ELSE IF db_entry.row = NoValue
                 THEN Http500("Failed to save journal entry", db_entry.db_calls)
                 ELSE [status |-> 200, detail |-> "",
                       entry |-> [f \in DOMAIN db_entry.row \cup {"analysis"} |->
                                     IF f = "analysis" THEN analysis
                                     ELSE db_entry.row[f]],
                       db_calls |-> db_entry.db_calls]

\* -------------------------------------------------------------- ml_service
\* What a model file on disk may be.
Artifacts == {"present", "missing", "unloadable"}

\* Mutant: one failed load clears both handles.
LoadedHandles_coupled(sentiment_artifact, emotion_artifact) ==
    [sentiment |-> sentiment_artifact = "present" /\ emotion_artifact = "present",
     emotion |-> sentiment_artifact = "present" /\ emotion_artifact = "present"]

\* load_models: each handle is the loaded model if its file exists and
\* joblib.load returns, None otherwise.
LoadedHandles(sentiment_artifact, emotion_artifact) ==
    [sentiment |-> sentiment_artifact = "present",
     emotion |-> emotion_artifact = "present"]

\* What a trained classifier answers: its classes_, its predict_proba row (raw),
\* or an exception.  predict() is the first class of highest probability.
SentimentClasses == <<"NEGATIVE", "POSITIVE">>
SentimentProbas == {<<3000, 7000>>, <<5000, 5000>>, <<9996, 4>>}
EmotionClasses ==
    <<"angry", "anxious", "calm", "fear", "happy", "neutral", "sad", "surprise">>
EmotionProbas ==
    {<<500, 500, 1000, 500, 6004, 996, 250, 250>>,
     <<1250, 1250, 1250, 1250, 1250, 1250, 1250, 1250>>}

ModelAnswers(classes, probas) ==
    {[throws |-> TRUE, classes |-> <<>>, probas |-> <<>>]}
    \cup {[throws |-> FALSE, classes |-> classes, probas |-> p] : p \in probas}

\* no model is loaded, so nothing answers
NoModel == [throws |-> FALSE, classes |-> <<>>, probas |-> <<>>]

Zip(classes, probas) ==
    [k \in 1..Min(Len(classes), Len(probas)) |->
        [label |-> classes[k], score |-> probas[k]]]

\* model.predict([text])[0]
Predict(answer) == ArgMaxFirst(Zip(answer.classes, answer.probas))

IndexOf(seq, x) == CHOOSE k \in 1..Len(seq) : seq[k] = x /\ \A h \in 1..(k - 1) : seq[h] # x

\* Mutant: the probability of the first class is taken for P(POSITIVE).
predict_sentiment_firstclass(text, answer) ==
    IF ~sentiment_model
    THEN [label |-> "NEUTRAL", score |-> 0, confidence |-> 0]
    ELSE IF answer.throws
    THEN [label |-> "NEUTRAL", score |-> 0, confidence |-> 0]
    ELSE [label |-> Predict(answer),
          score |-> Round3((answer.probas[1] - RawScale \div 2) * 2),
          confidence |-> Round3(SetMax({answer.probas[k] :
                                           k \in 1..Len(answer.probas)})),
          method |-> "logistic_regression"]

\* predict_sentiment(text)
predict_sentiment(text, answer) ==
    IF ~sentiment_model
    THEN [label |-> "NEUTRAL", score |-> 0, confidence |-> 0]
    ELSE IF answer.throws
    THEN [label |-> "NEUTRAL", score |-> 0, confidence |-> 0]
    ELSE LET prediction == Predict(answer)
             probas == answer.probas
             confidence == SetMax({probas[k] : k \in 1..Len(probas)})
             classes == answer.classes
             \* a 0-based index in the code
             pos_index == IF \E k \in 1..Len(classes) : classes[k] = "POSITIVE"
                          THEN IndexOf(classes, "POSITIVE") ELSE 2
             pos_prob == probas[pos_index]
             score == (pos_prob - RawScale \div 2) * 2
         IN  [label |-> prediction, score |-> Round3(score),
              confidence |-> Round3(confidence), method |-> "logistic_regression"]

\* Mutant: the error return carries no scores.
predict_emotion_emptyfallback(text, answer) ==
    IF ~emotion_model
    THEN [primary_emotion |-> "neutral",
          emotion_scores |-> <<[label |-> "neutral", score |-> 500]>>]
    ELSE IF answer.throws
    THEN [primary_emotion |-> "neutral", emotion_scores |-> <<>>]
    ELSE [primary_emotion |-> Predict(answer),
          emotion_scores |-> [k \in 1..Len(Zip(answer.classes, answer.probas)) |->
                                 [label |-> answer.classes[k],
                                  score |-> Round3(answer.probas[k])]],
          method |-> "naive_bayes"]

\* predict_emotion(text)
predict_emotion(text, answer) ==
    IF ~emotion_model
    THEN [primary_emotion |-> "neutral",
          emotion_scores |-> <<[label |-> "neutral", score |-> 500]>>]
    ELSE IF answer.throws
    THEN [primary_emotion |-> "neutral",
          emotion_scores |-> <<[label |-> "neutral", score |-> 500]>>]
    ELSE LET primary_emotion == Predict(answer)
             zipped == Zip(answer.classes, answer.probas)
             emotion_scores == [k \in 1..Len(zipped) |->
                                   [label |-> zipped[k].label,
                                    score |-> Round3(zipped[k].score)]]
         IN  [primary_emotion |-> primary_emotion,
              emotion_scores |-> emotion_scores, method |-> "naive_bayes"]

\* ------------------------------------------------------------ suggestions.py
SUGGESTIONS_DATABASE ==
    [anxiety |->
        [work |->
            <<"Break down your tasks into smaller, manageable steps",
              "Practice the 5-4-3-2-1 grounding technique: name 5 things you see, 4 you hear, 3 you can touch, 2 you smell, 1 you taste",
              "Take a 10-minute walk to clear your mind and reset",
              "Write down your worries and challenge them with evidence",
              "Use the Pomodoro technique: 25 minutes focused work, 5 minutes break">>,
         relationships |->
            <<"Communicate your feelings using 'I' statements",
              "Take deep breaths before responding in difficult conversations",
              "Write down what you want to say before the conversation",
              "Remember: you can only control your own actions, not others' reactions",
              "Consider if this worry will matter in 5 years">>,
         general |->
            <<"Practice box breathing: inhale 4 counts, hold 4, exhale 4, hold 4",
              "Progressive muscle relaxation: tense and release each muscle group",
              "Listen to calming music or nature sounds",
              "Limit caffeine and stay hydrated",
              "Journal your thoughts to externalize worries">>,
         health |->
            <<"Focus on what you can control right now",
              "Reach out to a healthcare professional if concerns persist",
              "Practice gentle movement like stretching or yoga",
              "Avoid excessive health-related internet searches",
              "Connect with supportive friends or family">>],
     sadness |->
        [general |->
            <<"Allow yourself to feel - emotions are valid and temporary",
              "Reach out to a trusted friend or family member",
              "Engage in a small act of self-care (shower, favorite meal, cozy space)",
              "Get outside for 15 minutes - sunlight and fresh air help",
              "Write about what you're feeling without judgment">>,
         relationships |->
            <<"Remember that healing takes time",
              "Focus on connections that bring you comfort",
              "It's okay to set boundaries while you process",
              "Consider writing a letter (you don't have to send it)",
              "Seek support from a counselor if feelings persist">>,
         work |->
            <<"Take a mental health day if possible",
              "Talk to your supervisor about workload if overwhelmed",
              "Celebrate small wins, even tiny ones",
              "Connect with supportive colleagues",
              "Remember: your worth isn't defined by productivity">>],
     anger |->
        [general |->
            <<"Take a timeout before responding - count to 10 slowly",
              "Physical activity can help release tension (walk, exercise)",
              "Write down what's bothering you, then tear it up",
              "Practice the STOP technique: Stop, Take a breath, Observe, Proceed mindfully",
              "Ask yourself: Will this matter in a week? A month? A year?">>,
         relationships |->
            <<"Use 'I feel' statements instead of 'You always/never'",
              "Take a break if the conversation gets too heated",
              "Focus on the specific issue, not the person",
              "Listen to understand, not just to respond",
              "Consider if there's hurt or fear underneath the anger">>,
         work |->
            <<"Step away from the situation if possible",
              "Document facts objectively if it's a workplace issue",
              "Channel energy into problem-solving rather than blame",
              "Talk to HR or a supervisor if it's a serious concern",
              "Practice assertive (not aggressive) communication">>],
     joy |->
        [general |->
            <<"Savor this moment - take a mental snapshot",
              "Share your joy with someone you care about",
              "Write down what made you happy to revisit later",
              "Express gratitude for the good things",
              "Use this positive energy for something creative or productive">>],
     fear |->
        [general |->
            <<"Ground yourself in the present moment",
              "Ask: What's the worst that could happen? How would I handle it?",
              "Break down the fear into specific, manageable concerns",
              "Talk to someone you trust about what scares you",
              "Remember times you've overcome challenges before">>],
     neutral |->
        [general |->
            <<"Use this calm moment for reflection or planning",
              "Practice gratitude - list 3 things you're thankful for",
              "Set a small, achievable goal for today",
              "Check in with yourself: What do you need right now?",
              "Engage in a mindful activity (tea, walk, music)">>]]

\* INTENSITY_MODIFIERS[intensity]["suggestions"]
INTENSITY_MODIFIERS ==
    [mild |->
        <<"This is a good time for gentle self-reflection",
          "Consider journaling to explore these feelings",
          "A short walk or stretch might help">>,
     moderate |->
        <<"It's important to address these feelings",
          "Consider talking to someone you trust",
          "Take some time for self-care today">>,
     intense |->
        <<"Please prioritize your wellbeing right now",
          "Consider reaching out to a mental health professional",
          "If you're in crisis, contact a crisis helpline immediately",
          "You don't have to face this alone - support is available">>]

\* The helpline text block.
CRISIS_RESOURCES == "If you're experiencing a mental health crisis: ..."
\* Python's None, where a string is expected
None == "<None>"

domain_work_keywords ==
    {"work", "job", "boss", "colleague", "office", "career", "project", "deadline",
     "meeting", "presentation"}
domain_relationship_keywords ==
    {"relationship", "partner", "spouse", "friend", "family", "love", "breakup",
     "argument", "lonely"}
domain_health_keywords ==
    {"health", "sick", "pain", "doctor", "medical", "illness", "body", "physical"}

\* sum(1 for kw in keywords if kw in text_lower)
HitCount(keywords, text_lower) ==
    Cardinality({kw \in keywords : Occurs(kw, text_lower)})

\* get_life_domain(text)
get_life_domain(text) ==
    LET text_lower == LowerAll(text)
        work_count == HitCount(domain_work_keywords, text_lower)
        relationship_count == HitCount(domain_relationship_keywords, text_lower)
        health_count == HitCount(domain_health_keywords, text_lower)
    IN  IF work_count > relationship_count /\ work_count > health_count THEN "work"
        ELSE IF relationship_count > work_count /\ relationship_count > health_count
             THEN "relationships"
        ELSE IF health_count > 0 THEN "health"
        ELSE "general"

\* Mutant: a confidence of exactly 0.7 already counts as intense.
get_emotion_intensity_ge(mood_score, emotion_confidence) ==
    IF mood_score <= 3 \/ mood_score >= 8
    THEN (IF emotion_confidence >= 700 THEN "intense" ELSE "moderate")
    ELSE IF mood_score <= 5 \/ mood_score >= 7 THEN "moderate"
    ELSE "mild"

\* get_emotion_intensity(mood_score, emotion_confidence), the confidence in
\* thousandths
get_emotion_intensity(mood_score, emotion_confidence) ==
    IF mood_score <= 3 \/ mood_score >= 8
    THEN (IF emotion_confidence > 700 THEN "intense" ELSE "moderate")
    ELSE IF mood_score <= 5 \/ mood_score >= 7 THEN "moderate"
    ELSE "mild"

\* random.sample(population, k), the picks fixed by rnd = [start, stride]
Sample(population, k, rnd) ==
    [j \in 1..k |->
        population[((rnd.start - 1 + (j - 1) * rnd.stride) % Len(population)) + 1]]

\* The draws of the random source that pick k distinct members of n.
Draws(n, k) ==
    {r \in [start : 1..n, stride : 1..MaxStride] :
        \A i, j \in 1..k : i # j => ((i - j) * r.stride) % n # 0}

\* Mutant: every intense result carries the crisis block.
generate_personalized_suggestions_anyemotion(emotion_name, mood_score, text, emotion_confidence, rnd) ==
    LET intensity == get_emotion_intensity(mood_score, emotion_confidence)
    IN  [suggestions |-> Take(INTENSITY_MODIFIERS[intensity], 2),
         emotion |-> emotion_name, domain |-> get_life_domain(text),
         intensity |-> intensity,
         crisis_resources |-> IF intensity = "intense" THEN CRISIS_RESOURCES ELSE None]

\* Mutant: two general suggestions are sampled instead of three.
generate_personalized_suggestions_twogeneral(emotion_name, mood_score, text, emotion_confidence, rnd) ==
    LET lowered == Lower(emotion_name)
        emotion_lower == IF lowered \in DOMAIN SUGGESTIONS_DATABASE
                         THEN lowered ELSE "neutral"
        domain == get_life_domain(text)
        intensity == get_emotion_intensity(mood_score, emotion_confidence)
        by_domain ==
            IF domain \in DOMAIN SUGGESTIONS_DATABASE[emotion_lower]
            THEN LET domain_suggestions == SUGGESTIONS_DATABASE[emotion_lower][domain]
                 IN  Sample(domain_suggestions, Min(2, Len(domain_suggestions)),
                            rnd.domain)
            ELSE <<>>
        general ==
            IF "general" \in DOMAIN SUGGESTIONS_DATABASE[emotion_lower]
            THEN LET general_suggestions == SUGGESTIONS_DATABASE[emotion_lower].general
                 IN  Sample(general_suggestions, Min(2, Len(general_suggestions)),
                            rnd.general)
            ELSE <<>>
        by_intensity ==
            IF intensity \in DOMAIN INTENSITY_MODIFIERS
            THEN Take(INTENSITY_MODIFIERS[intensity], 2)
            ELSE <<>>
        suggestions == by_domain \o general \o by_intensity
        include_crisis ==
            intensity = "intense" /\ emotion_lower \in {"sadness", "anxiety", "fear"}
    IN  [suggestions |-> Take(suggestions, 5),
         emotion |-> emotion_name,
         domain |-> domain,
         intensity |-> intensity,
         crisis_resources |-> IF include_crisis THEN CRISIS_RESOURCES ELSE None]

\* generate_personalized_suggestions(emotion_name, mood_score, text, emotion_confidence)
generate_personalized_suggestions(emotion_name, mood_score, text, emotion_confidence, rnd) ==
    LET lowered == Lower(emotion_name)
        emotion_lower == IF lowered \in DOMAIN SUGGESTIONS_DATABASE
                         THEN lowered ELSE "neutral"
        domain == get_life_domain(text)
        intensity == get_emotion_intensity(mood_score, emotion_confidence)
        by_domain ==
            IF domain \in DOMAIN SUGGESTIONS_DATABASE[emotion_lower]
            THEN LET domain_suggestions == SUGGESTIONS_DATABASE[emotion_lower][domain]
                 IN  Sample(domain_suggestions, Min(2, Len(domain_suggestions)),
                            rnd.domain)
            ELSE <<>>
        general ==
            IF "general" \in DOMAIN SUGGESTIONS_DATABASE[emotion_lower]
            THEN LET general_suggestions == SUGGESTIONS_DATABASE[emotion_lower].general
                 IN  Sample(general_suggestions, Min(3, Len(general_suggestions)),
                            rnd.general)
            ELSE <<>>
        by_intensity ==
            IF intensity \in DOMAIN INTENSITY_MODIFIERS
            THEN Take(INTENSITY_MODIFIERS[intensity], 2)
            ELSE <<>>
        suggestions == by_domain \o general \o by_intensity
        include_crisis ==
            intensity = "intense" /\ emotion_lower \in {"sadness", "anxiety", "fear"}
    IN  [suggestions |-> Take(suggestions, 5),
         emotion |-> emotion_name,
         domain |-> domain,
         intensity |-> intensity,
         crisis_resources |-> IF include_crisis THEN CRISIS_RESOURCES ELSE None]

\* ------------------------------------------- the analyze-only endpoint
\* Mutant: the crisis_resources key is set whatever its value.
analyze_journal_alwayskey(user_id, text, ext, rnd) ==
    LET analysis == analyze_text(text, ext)
    IN  IF analysis.raised
        THEN [status |-> 500, detail |-> "str(e)", body |-> NoValue]
        ELSE
        LET scores == Values(analysis.emotion.emotion_scores)
            emotion_confidence == IF scores = {} THEN Scale \div 2 ELSE SetMax(scores)
            enhanced_suggestions ==
                generate_personalized_suggestions(analysis.emotion.primary_emotion,
                                                  analysis.mood_score, text,
                                                  emotion_confidence, rnd)
            keys == DOMAIN analysis
                    \cup {"life_domain", "emotion_intensity", "crisis_resources"}
        IN  [status |-> 200, detail |-> "",
             body |->
                [user_id |-> user_id,
                 text |-> text,
                 analysis |->
                    [f \in keys |->
                        CASE f = "suggestions" -> enhanced_suggestions.suggestions
                          [] f = "life_domain" -> enhanced_suggestions.domain
                          [] f = "emotion_intensity" -> enhanced_suggestions.intensity
                          [] f = "crisis_resources" ->
                                 enhanced_suggestions.crisis_resources
                          [] OTHER -> analysis[f]],
                 note |-> "Analysis complete. Database not connected - entry not saved."]]

\* app_no_db.analyze_journal(entry): the response the caller gets; rnd are the
\* draws of random.sample.
analyze_journal(user_id, text, ext, rnd) ==
    LET analysis == analyze_text(text, ext)
    IN  IF analysis.raised
        THEN [status |-> 500, detail |-> "str(e)", body |-> NoValue]
        ELSE
        LET scores == Values(analysis.emotion.emotion_scores)
            emotion_confidence == IF scores = {} THEN Scale \div 2 ELSE SetMax(scores)
            enhanced_suggestions ==
                generate_personalized_suggestions(analysis.emotion.primary_emotion,
                                                  analysis.mood_score, text,
                                                  emotion_confidence, rnd)
            keys == DOMAIN analysis
                    \cup {"life_domain", "emotion_intensity"}
                    \cup (IF enhanced_suggestions.crisis_resources # None
                          THEN {"crisis_resources"} ELSE {})
        IN  [status |-> 200, detail |-> "",
             body |->
                [user_id |-> user_id,
                 text |-> text,
                 analysis |->
                    [f \in keys |->
                        CASE f = "suggestions" -> enhanced_suggestions.suggestions
                          [] f = "life_domain" -> enhanced_suggestions.domain
                          [] f = "emotion_intensity" -> enhanced_suggestions.intensity
                          [] f = "crisis_resources" ->
                                 enhanced_suggestions.crisis_resources
                          [] OTHER -> analysis[f]],
                 note |-> "Analysis complete. Database not connected - entry not saved."]]

\* ------------------------------------------------- process start (no calls)
Boot ==
    /\ sentiment_pipeline = FALSE
    /\ emotion_pipeline = FALSE
    /\ vader_analyzer = FALSE
    /\ nlp_imported = FALSE
    /\ sentiment_model = FALSE
    /\ emotion_model = FALSE
    /\ ml_imported = FALSE
    /\ hash_seed \in 0..MaxSeed
    /\ threads = <<>>

Env == <<sentiment_pipeline, emotion_pipeline, vader_analyzer, nlp_imported,
         sentiment_model, emotion_model, ml_imported, hash_seed>>

\* ----------------------------------- direct calls of calculate_mood_score
MoodInputs == {s \in -Scale..Scale : s % MoodStep = 0}
IntensityInputs == {i \in 0..Scale : i % MoodStep = 0}

InitMood ==
    /\ Boot
    /\ hash_seed = 0
    /\ \E s \in MoodInputs, i \in IntensityInputs :
          last = [op |-> "input", sentiment_score |-> s, emotion_intensity |-> i,
                  ret |-> NoValue]

CalcMood ==
    /\ last.op = "input"
    /\ last' = [last EXCEPT !.op = "calculate_mood_score",
                            !.ret = calculate_mood_score(last.sentiment_score,
                                                         last.emotion_intensity)]
    /\ UNCHANGED <<Env, threads>>

\* ------------------------------------------------------------- the process
RECURSIVE SeqsUpTo(_)
\* the word sequences of at most n words
SeqsUpTo(n) ==
    IF n = 0 THEN {<<>>}
    ELSE LET shorter == SeqsUpTo(n - 1)
         IN  shorter \cup {Append(t, w) : t \in {u \in shorter : Len(u) = n - 1},
                                          w \in Vocab}

\* Longer entries: one phrase of two words; two phrases; a word met four times;
\* a theme too short to keep; a word followed by a comma; and an entry of eight
\* candidate phrases and six distinct longer words.
SampleTexts ==
    {<<"Work", "happy">>,
     <<"Work", "deadline,", "happy">>,
     <<"school", "Work">>,
     <<"happy", "the", "Work">>,
     <<"unhappy", "scared">>,
     <<"Work", "the", "work", "the", "Work", "the", "Work">>,
     <<"sad", "the", "scared">>,
     <<"Work", "the", "happy", "the", "scared", "the", "unhappy", "the", "friend",
       "deadline", "the", "sad", "the", "scared", "Work", "the", "happy">>}

Texts == SeqsUpTo(MaxWords) \cup SampleTexts

\* The answers of the libraries a call can meet, given the handles.
HfSentChoices == IF sentiment_pipeline THEN HfSentAnswers ELSE {NoAnswer}
VaderChoices == IF vader_analyzer THEN VaderAnswers ELSE {NoAnswer}
HfEmoChoices == IF emotion_pipeline THEN HfEmoAnswers ELSE {NoEmoAnswer}

\* one answer of each sentiment library that is not an exception
HfSentUsual ==
    IF sentiment_pipeline
    THEN [throws |-> FALSE, label |-> "POSITIVE", score |-> 9998] ELSE NoAnswer
VaderUsual ==
    IF vader_analyzer
    THEN [throws |-> FALSE, label |-> "compound", score |-> 8125] ELSE NoAnswer

\* The answers one analyze_text call meets: every answer of the sentiment
\* libraries with every answer of the emotion pipeline, and every answer of
\* the emotion pipeline with every answer of the keyword extractor and every
\* emoji file.
Exts(text) ==
    {[hfSent |-> a, vader |-> b, hfEmo |-> c, rake |-> "ranked",
      emojiFile |-> "missing"] :
        a \in HfSentChoices, b \in VaderChoices, c \in HfEmoChoices}
    \cup
    {[hfSent |-> HfSentUsual, vader |-> VaderUsual, hfEmo |-> c, rake |-> d,
      emojiFile |-> e] :
        c \in HfEmoChoices,
        d \in (IF Len(RakePhrases(text, <<>>)) > 1 THEN RakeAnswers
               ELSE RakeAnswers \ {"ranked_reverse"}),
        e \in EmojiFiles}

Call(op, text, ext, ret) ==
    [op |-> op, text |-> text, ext |-> ext, ret |-> ret, again |-> NoValue]

\* The emotion strings, confidences and texts of the direct calls of
\* generate_personalized_suggestions.
EmotionInputs ==
    {"anxiety", "SADNESS", "anger", "joy", "Fear", "neutral", "sad"}
ConfidenceInputs == {0, 700, 701, 1000}
DomainTexts ==
    {<<>>, <<"Work">>, <<"friend">>, <<"sick">>, <<"Work", "friend">>,
     <<"Work", "sick">>, <<"Work", "deadline", "sick">>}

InitSuggest ==
    /\ Boot
    /\ hash_seed = 0
    /\ \E emotion_name \in EmotionInputs, mood_score \in 0..10, text \in DomainTexts,
          emotion_confidence \in ConfidenceInputs :
          last = Call("suggest_input", text,
                      [emotion |-> emotion_name, mood_score |-> mood_score,
                       emotion_confidence |-> emotion_confidence], NoValue)

\* A direct call of generate_personalized_suggestions.
GeneratePersonalized ==
    /\ last.op = "suggest_input"
    /\ \E d \in Draws(5, 2), g \in Draws(5, 3) :
          last' = [last EXCEPT
                      !.op = "generate_personalized_suggestions",
                      !.ret = generate_personalized_suggestions(
                                  last.ext.emotion, last.ext.mood_score, last.text,
                                  last.ext.emotion_confidence,
                                  [domain |-> d, general |-> g])]
    /\ UNCHANGED <<Env, threads>>

\* ------------------------------------------ concurrent analyze_text calls
\* Two requests are analysed at the same time in a process that has imported
\* nlp.py.  A call reads the handles when it reaches sentiment() and emotion().
ThreadStart(text, ext, alone) ==
    [text |-> text, ext |-> ext, pc |-> "sentiment", sentiment_result |-> NoValue,
     emotion_result |-> NoValue, ret |-> NoValue, alone |-> alone]

\* the library answers one of the calls can meet; the emoji file is the same
\* for both
ConcExts(text, emojiFile) ==
    {[hfSent |-> a, vader |-> b, hfEmo |-> c, rake |-> "throws",
      emojiFile |-> emojiFile] :
        a \in HfSentChoices, b \in VaderChoices, c \in HfEmoChoices}

InitConc ==
    /\ \E use_hf_models, sentiment_loads, emotion_loads, vader_inits \in BOOLEAN :
          /\ sentiment_pipeline = (use_hf_models /\ sentiment_loads)
          /\ emotion_pipeline = (use_hf_models /\ sentiment_loads /\ emotion_loads)
          /\ vader_analyzer = (~(use_hf_models /\ sentiment_loads) /\ vader_inits)
    /\ nlp_imported = TRUE
    /\ sentiment_model = FALSE
    /\ emotion_model = FALSE
    /\ ml_imported = FALSE
    /\ hash_seed \in 0..MaxSeed
    /\ last = Call("concurrent", <<>>, NoValue, NoValue)
    /\ \E emojiFile \in {"missing", "json_list"} :
          \E ext1 \in ConcExts(<<"Work", "happy">>, emojiFile),
             ext2 \in ConcExts(<<"unhappy", "scared">>, emojiFile) :
             threads =
                 <<ThreadStart(<<"Work", "happy">>, ext1,
                               analyze_text(<<"Work", "happy">>, ext1)),
                   ThreadStart(<<"unhappy", "scared">>, ext2,
                               analyze_text(<<"unhappy", "scared">>, ext2))>>

\* ------------------------------------------------ the analyze-only process
\* The texts posted to the analyze-only endpoint (at least 10 characters).
AnalyzeJournalTexts ==
    {<<"Work", "happy">>, <<"sad", "the", "Work">>, <<"scared", "Work">>}

\* A process that has imported nlp.py and is handed one request.
InitJournal ==
    /\ \E use_hf_models, sentiment_loads, emotion_loads, vader_inits \in BOOLEAN :
          /\ sentiment_pipeline = (use_hf_models /\ sentiment_loads)
          /\ emotion_pipeline = (use_hf_models /\ sentiment_loads /\ emotion_loads)
          /\ vader_analyzer = (~(use_hf_models /\ sentiment_loads) /\ vader_inits)
    /\ nlp_imported = TRUE
    /\ sentiment_model = FALSE
    /\ emotion_model = FALSE
    /\ ml_imported = FALSE
    /\ hash_seed \in 0..MaxSeed
    /\ threads = <<>>
    /\ \E text \in {t \in AnalyzeJournalTexts : JoinedLen(t) >= 10},
          emojiFile \in {"missing", "json_list"} :
          \E ext \in ConcExts(text, emojiFile) :
             last = Call("journal_input", text, ext, NoValue)

\* POST /api/journal/analyze
AnalyzeJournal ==
    /\ last.op = "journal_input"
    /\ \E d \in Draws(5, 2), g \in Draws(5, 3) :
          last' = Call("analyze_journal", last.text, last.ext,
                       analyze_journal("user-1", last.text, last.ext,
                                       [domain |-> d, general |-> g]))
    /\ UNCHANGED <<Env, threads>>

\* Mutant: a throwing transformer is dropped for the rest of the process.
ThreadSentiment_disables(i) ==
    /\ threads[i].pc = "sentiment"
    /\ threads' = [threads EXCEPT
                      ![i].sentiment_result =
                          sentiment(preprocess(threads[i].text), threads[i].ext),
                      ![i].pc = "emotion"]
    /\ sentiment_pipeline' = (sentiment_pipeline /\ ~threads[i].ext.hfSent.throws)
    /\ UNCHANGED <<emotion_pipeline, vader_analyzer, nlp_imported, sentiment_model,
                   emotion_model, ml_imported, hash_seed, last>>

\* thread i runs sentiment(cleaned_text)
ThreadSentiment(i) ==
    /\ threads[i].pc = "sentiment"
    /\ threads' = [threads EXCEPT
                      ![i].sentiment_result =
                          sentiment(preprocess(threads[i].text), threads[i].ext),
                      ![i].pc = "emotion"]
    /\ UNCHANGED <<Env, last>>

\* thread i runs emotion(cleaned_text)
ThreadEmotion(i) ==
    /\ threads[i].pc = "emotion"
    /\ threads' = [threads EXCEPT
                      ![i].emotion_result =
                          emotion(preprocess(threads[i].text), threads[i].ext),
                      ![i].pc = "rest"]
    /\ UNCHANGED <<Env, last>>

\* thread i runs the rest of analyze_text and returns
ThreadRest(i) ==
    /\ threads[i].pc = "rest"
    /\ threads' = [threads EXCEPT
                      ![i].ret = analyze_rest(threads[i].text, threads[i].ext,
                                              threads[i].sentiment_result,
                                              threads[i].emotion_result),
                      ![i].pc = "done"]
    /\ UNCHANGED <<Env, last>>

\* Between two calls: the caller has taken the result.
Idle == Call("idle", <<>>, NoValue, NoValue)

Init ==
    \/ /\ Boot
       /\ last = Idle
    \/ InitMood
    \/ InitSuggest
    \/ InitConc
    \/ InitJournal

\* The module-level code of nlp.py (lines 49-97).
NlpImport ==
    /\ last = Idle
    /\ ~nlp_imported
    /\ \E use_hf_models, sentiment_loads, emotion_loads, vader_inits \in BOOLEAN :
          /\ sentiment_pipeline' = (use_hf_models /\ sentiment_loads)
          /\ emotion_pipeline' = (use_hf_models /\ sentiment_loads /\ emotion_loads)
          /\ vader_analyzer' = (~(use_hf_models /\ sentiment_loads) /\ vader_inits)
    /\ nlp_imported' = TRUE
    /\ last' = Call("nlp_import", <<>>, NoValue, NoValue)
    /\ UNCHANGED <<sentiment_model, emotion_model, ml_imported, hash_seed, threads>>

\* load_models(), run when ml_service is imported.
LoadModels ==
    /\ last = Idle
    /\ \E sentiment_artifact, emotion_artifact \in Artifacts :
          LET handles == LoadedHandles(sentiment_artifact, emotion_artifact)
          IN  /\ sentiment_model' = handles.sentiment
              /\ emotion_model' = handles.emotion
              /\ last' = Call("load_models", <<>>,
                              [sentiment_artifact |-> sentiment_artifact,
                               emotion_artifact |-> emotion_artifact], NoValue)
    /\ ml_imported' = TRUE
    /\ UNCHANGED <<sentiment_pipeline, emotion_pipeline, vader_analyzer,
                   nlp_imported, hash_seed, threads>>

PredictSentiment ==
    /\ last = Idle
    /\ ml_imported
    /\ \E text \in Texts,
          answer \in (IF sentiment_model
                      THEN ModelAnswers(SentimentClasses, SentimentProbas)
                      ELSE {NoModel}) :
          /\ last' = Call("predict_sentiment", text, answer,
                          predict_sentiment(text, answer))
    /\ UNCHANGED <<Env, threads>>

PredictEmotion ==
    /\ last = Idle
    /\ ml_imported
    /\ \E text \in Texts,
          answer \in (IF emotion_model
                      THEN ModelAnswers(EmotionClasses, EmotionProbas)
                      ELSE {NoModel}) :
          /\ last' = Call("predict_emotion", text, answer,
                          predict_emotion(text, answer))
    /\ UNCHANGED <<Env, threads>>

\* Direct calls of sentiment(text) and emotion(text).
SentimentCall ==
    /\ last = Idle
    /\ nlp_imported
    /\ \E text \in Texts, a \in HfSentChoices, b \in VaderChoices :
          LET ext == [hfSent |-> a, vader |-> b, hfEmo |-> NoEmoAnswer,
                      rake |-> "ranked", emojiFile |-> "missing"]
          IN  last' = Call("sentiment", text, ext, sentiment(preprocess(text), ext))
    /\ UNCHANGED <<Env, threads>>

EmotionCall ==
    /\ last = Idle
    /\ nlp_imported
    /\ \E text \in Texts, c \in HfEmoChoices, e \in EmojiFiles :
          LET ext == [hfSent |-> NoAnswer, vader |-> NoAnswer, hfEmo |-> c,
                      rake |-> "ranked", emojiFile |-> e]
          IN  last' = Call("emotion", text, ext, emotion(preprocess(text), ext))
    /\ UNCHANGED <<Env, threads>>

AnalyzeText ==
    /\ last = Idle
    /\ nlp_imported
    /\ \E text \in Texts :
          \E ext \in Exts(text) :
             last' = Call("analyze_text", text, ext, analyze_text(text, ext))
    /\ UNCHANGED <<Env, threads>>

\* The texts posted to the journal endpoint; the request model wants at least
\* 10 characters.
JournalTexts == {<<"Work", "happy">>, <<"Work", "deadline,", "happy">>}

\* POST /api/journal/
CreateJournal ==
    /\ last = Idle
    /\ nlp_imported
    /\ \E text \in {t \in JournalTexts : JoinedLen(t) >= 10} :
          \E ext \in Exts(text), db \in DbAnswers :
             last' = Call("create_journal", text, [nlp |-> ext, db |-> db],
                          create_journal("user-1", text, ext, db))
    /\ UNCHANGED <<Env, threads>>

\* A second call on the same text, the libraries answering as before.
AnalyzeAgain ==
    /\ last.op = "analyze_text"
    /\ last.again = NoValue
    /\ last' = [last EXCEPT !.again = analyze_text(last.text, last.ext)]
    /\ UNCHANGED <<Env, threads>>

\* The caller takes the result of the last call.
Return ==
    /\ last.op \in {"nlp_import", "load_models", "predict_sentiment",
                   "predict_emotion", "sentiment", "emotion", "analyze_text",
                   "create_journal", "analyze_journal"}
    /\ last' = Idle
    /\ UNCHANGED <<Env, threads>>

Next ==
    \/ Return
    \/ NlpImport
    \/ LoadModels
    \/ PredictSentiment
    \/ PredictEmotion
    \/ SentimentCall
    \/ EmotionCall
    \/ AnalyzeText
    \/ AnalyzeAgain
    \/ CreateJournal
    \/ AnalyzeJournal
    \/ CalcMood
    \/ GeneratePersonalized
    \/ \E i \in DOMAIN threads : ThreadSentiment(i)
    \/ \E i \in DOMAIN threads : ThreadEmotion(i)
    \/ \E i \in DOMAIN threads : ThreadRest(i)

Spec == Init /\ [][Next]_vars

\* ================================================================ properties
\* the last call was op, and last.ret is what it returned
Returned(op) == last.op = op
Analyzed == Returned("analyze_text") /\ ~last.ret.raised

\* C1: calculate_mood_score returns an integer in 0..10 for every sentiment
\* score in [-1,1] and every emotion intensity in [0,1], and so the mood_score
\* of every analyze_text result is an integer in 0..10.
C1_MoodScoreRange ==
    /\ Returned("calculate_mood_score") => last.ret \in 0..10
    /\ Analyzed => last.ret.mood_score \in 0..10

\* The clamp acts: the adjusted score is above 10 and the result is 10.
C1_Witness ==
    /\ Returned("calculate_mood_score")
    /\ (last.sentiment_score + Scale) * 5 + 2 * last.emotion_intensity > 11 * Scale
    /\ last.ret = 10

\* C2: the mood_score of every result is the documented formula (clamp, then
\* round) applied to the returned sentiment score and the largest returned
\* emotion score; the code's round-then-clamp gives the same integer.
C2_MoodScoreFormula ==
    /\ Returned("calculate_mood_score") =>
          last.ret = DocumentedMoodScore(last.sentiment_score, last.emotion_intensity)
    /\ Analyzed =>
          last.ret.mood_score =
              DocumentedMoodScore(last.ret.sentiment.score,
                                  SetMax(Values(last.ret.emotion.emotion_scores)))

\* A sentiment score of exactly 0 with a positive intensity: the intensity is
\* subtracted.
C2_Witness ==
    /\ Analyzed
    /\ last.ret.sentiment.score = 0
    /\ SetMax(Values(last.ret.emotion.emotion_scores)) = Scale
    /\ last.ret.mood_score = 3

\* C3: on every tier (trained classifier, transformer pipeline, keyword
\* matching, unavailable-model and error returns) the returned primary_emotion
\* is a key of the returned emotion_scores.
C3_PrimaryIsKey ==
    /\ Analyzed =>
          last.ret.emotion.primary_emotion \in Labels(last.ret.emotion.emotion_scores)
    /\ (Returned("emotion") /\ ~last.ret.raised) =>
          last.ret.primary_emotion \in Labels(last.ret.emotion_scores)
    /\ Returned("predict_emotion") =>
          last.ret.primary_emotion \in Labels(last.ret.emotion_scores)

\* The loaded trained classifier throws during the call.
C3_Witness ==
    /\ Returned("predict_emotion")
    /\ emotion_model
    /\ last.ext.throws
    /\ last.ret.primary_emotion = "neutral"

AnalysisFields ==
    {"sentiment", "emotion", "mood_score", "themes", "highlighted_phrases",
     "suggestions", "metadata"}

\* C4: analyze_text raises for no text, whatever models are available and
\* whichever stage fails during the call (transformer, lexicon analyzer,
\* keyword extractor, emoji table file missing or malformed): it returns a
\* result with all seven fields.
C4_NeverRaises ==
    Returned("analyze_text") =>
        /\ ~last.ret.raised
        /\ AnalysisFields \subseteq DOMAIN last.ret

\* The method tag of the first tier, in the documented order, whose model is
\* available.
FirstAvailableSentimentTier ==
    IF sentiment_model THEN "logistic_regression"
    ELSE IF sentiment_pipeline THEN "huggingface"
    ELSE IF vader_analyzer THEN "vader"
    ELSE "fallback"

\* C5: the sentiment of a result comes from the first available tier in the
\* order trained classifier, transformer pipeline, lexicon, fallback; when the
\* trained sentiment model is loaded it is the trained classifier's prediction.
C5_TrainedTierFirst ==
    (Analyzed /\ ~last.ext.hfSent.throws /\ ~last.ext.vader.throws) =>
        last.ret.sentiment.method = FirstAvailableSentimentTier

\* No sentiment method answers: each is unavailable or throws during the call.
NoSentimentMethod(ext) ==
    /\ ~sentiment_pipeline \/ ext.hfSent.throws
    /\ ~vader_analyzer \/ ext.vader.throws

\* C6: when every sentiment method is unavailable or throws, sentiment(text)
\* returns label NEUTRAL, score 0.0, confidence 0.0, method fallback, and does
\* not raise.
C6_UltimateFallback ==
    (Returned("sentiment") /\ NoSentimentMethod(last.ext)) =>
        last.ret = FallbackSentiment

\* The lexicon analyzer is there and throws.
C6_Witness ==
    /\ Returned("sentiment")
    /\ vader_analyzer
    /\ last.ext.vader.throws
    /\ last.ret.method = "fallback"

\* C7: load_models sets each handle to the loaded model or to None from its own
\* artifact alone, for every combination of present, missing and unloadable
\* artifacts, and with a handle None the prediction is the fixed neutral value.
C7_LoadModelsDegrades ==
    /\ Returned("load_models") =>
          /\ sentiment_model = (last.ext.sentiment_artifact = "present")
          /\ emotion_model = (last.ext.emotion_artifact = "present")
    /\ (Returned("predict_sentiment") /\ ~sentiment_model) =>
          last.ret = [label |-> "NEUTRAL", score |-> 0, confidence |-> 0]
    /\ (Returned("predict_emotion") /\ ~emotion_model) =>
          last.ret = [primary_emotion |-> "neutral",
                      emotion_scores |-> <<[label |-> "neutral", score |-> 500]>>]

\* One artifact loads, the other is there and cannot be loaded.
C7_Witness ==
    /\ Returned("load_models")
    /\ last.ext.sentiment_artifact = "present"
    /\ last.ext.emotion_artifact = "unloadable"
    /\ sentiment_model
    /\ ~emotion_model

\* The taxonomy of the enhanced generator, and the emotion normalized to it.
Taxonomy == {"anxiety", "sadness", "anger", "joy", "fear", "neutral"}
Normalized(e) == IF Lower(e) \in Taxonomy THEN Lower(e) ELSE "neutral"

\* C8: generate_personalized_suggestions returns the helpline block as
\* crisis_resources if and only if the intensity is "intense" and the
\* normalized emotion is sadness, anxiety or fear; otherwise null.
C8_CrisisResources ==
    Returned("generate_personalized_suggestions") =>
        last.ret.crisis_resources =
            IF /\ last.ret.intensity = "intense"
               /\ Normalized(last.ext.emotion) \in {"sadness", "anxiety", "fear"}
            THEN CRISIS_RESOURCES
            ELSE None

\* An upper-case emotion with a low mood and a high confidence gets the block.
C8_Witness ==
    /\ Returned("generate_personalized_suggestions")
    /\ last.ext.emotion = "SADNESS"
    /\ last.ext.mood_score = 2
    /\ last.ret.crisis_resources = CRISIS_RESOURCES

\* C9: at most 5 themes, each longer than 3 characters, on the ranked-phrase
\* path and on the word-frequency path; at most 5 suggestions from
\* generate_suggestions and from generate_personalized_suggestions.
C9_Limits ==
    /\ Analyzed =>
          /\ Len(last.ret.themes) <= 5
          /\ \A k \in 1..Len(last.ret.themes) : JoinedLen(last.ret.themes[k]) > 3
          /\ Len(last.ret.suggestions) <= 5
    /\ Returned("generate_personalized_suggestions") =>
          Len(last.ret.suggestions) <= 5

\* The word-frequency path on a text of six distinct longer words.
C9_Witness ==
    /\ Analyzed
    /\ last.ext.rake = "throws"
    /\ Cardinality({Lower(last.text[k]) : k \in 1..Len(last.text)}) > 7
    /\ Len(last.ret.themes) = 5

C11_StrictHalves ==
    Returned("calculate_mood_score") =>
        /\ last.sentiment_score > 0 => last.ret > 5
        /\ last.sentiment_score < 0 => last.ret < 5

\* C11 (amended): for every sentiment_score > 0 and every emotion_intensity in
\* [0,1] calculate_mood_score returns at least 5, and for every
\* sentiment_score < 0 at most 5; a weak sentiment with a low intensity rounds
\* to exactly 5.
C11_Halves ==
    Returned("calculate_mood_score") =>
        /\ last.sentiment_score > 0 => last.ret >= 5
        /\ last.sentiment_score < 0 => last.ret <= 5

\* A weak positive sentiment rounds to the middle.
C11_Witness ==
    /\ Returned("calculate_mood_score")
    /\ last.sentiment_score > 0
    /\ last.ret = 5

\* C12 as stated: a sentiment score of 0 gives a result in 4..6 for every
\* intensity.
C12_NeutralNearMiddle ==
    (Returned("calculate_mood_score") /\ last.sentiment_score = 0) =>
        last.ret \in 4..6

\* C12 (amended): for sentiment_score = 0 and every emotion_intensity in [0,1]
\* calculate_mood_score returns a value in 3..5 (the intensity is subtracted
\* from 5, up to 2).
C12_NeutralBand ==
    (Returned("calculate_mood_score") /\ last.sentiment_score = 0) =>
        last.ret \in 3..5

\* A neutral sentiment with a high intensity gives 3.
C12_Witness ==
    /\ Returned("calculate_mood_score")
    /\ last.sentiment_score = 0
    /\ last.emotion_intensity > 750
    /\ last.ret = 3

\* C13: in every analyze_text result, on every sentiment tier, a POSITIVE
\* label comes with a mood_score of at least 5 and a NEGATIVE label with a
\* mood_score of at most 5, whatever the emotion scores are.
C13_LabelBoundsMood ==
    Analyzed =>
        /\ last.ret.sentiment.label = "POSITIVE" => last.ret.mood_score >= 5
        /\ last.ret.sentiment.label = "NEGATIVE" => last.ret.mood_score <= 5

\* The lexicon tier at its NEGATIVE threshold with no emotion found: exactly 5.
C13_Witness ==
    /\ Analyzed
    /\ last.ret.sentiment.method = "vader"
    /\ last.ret.sentiment.label = "NEGATIVE"
    /\ last.ret.mood_score = 5

\* The theme occurs at word k of the text as a whole word (or whole words), up
\* to case: a word-boundary search, so punctuation may follow the occurrence
\* in the text but a theme that itself ends in punctuation occurs nowhere.
WholeWordAt(theme, text, k) ==
    /\ k >= 1
    /\ k + Len(theme) - 1 <= Len(text)
    /\ ~Punctuated(theme[Len(theme)])
    /\ theme = [i \in 1..Len(theme) |->
                  Lower(IF i = Len(theme) THEN Bare(text[k + i - 1])
                        ELSE text[k + i - 1])]

\* the n words from word k on, as written in the text, without the
\* punctuation that follows them
AsWritten(text, k, n) ==
    [i \in 1..n |-> IF i = n THEN Bare(text[k + i - 1]) ELSE text[k + i - 1]]

\* the i-th smallest member of a set of positions
IthOf(P, i) == CHOOSE p \in P : Cardinality({q \in P : q < p}) = i - 1

\* C14: highlighted_phrases maps each extracted theme that occurs in the
\* original text to its first up to 3 whole-word, case-insensitive occurrences,
\* in order of appearance and in the text's casing; a theme without an
\* occurrence is not a key; every key is a theme and every value has 1 to 3
\* entries.
C14_Highlighting ==
    Analyzed =>
        LET text == last.text
            themes == {last.ret.themes[k] : k \in 1..Len(last.ret.themes)}
            highlighted == last.ret.highlighted_phrases
        IN  /\ DOMAIN highlighted \subseteq themes
            /\ \A theme \in themes :
                  LET at == {k \in 1..Len(text) : WholeWordAt(theme, text, k)}
                  IN  IF at = {} THEN theme \notin DOMAIN highlighted
                      ELSE /\ theme \in DOMAIN highlighted
                           /\ Len(highlighted[theme]) = Min(3, Cardinality(at))
                           /\ Len(highlighted[theme]) \in 1..3
                           /\ \A i \in 1..Len(highlighted[theme]) :
                                 highlighted[theme][i] =
                                     AsWritten(text, IthOf(at, i), Len(theme))

\* A theme met four times in two casings: the first three, as written.
C14_Witness ==
    /\ Analyzed
    /\ <<"work">> \in DOMAIN last.ret.highlighted_phrases
    /\ last.ret.highlighted_phrases[<<"work">>]
          = << <<"Work">>, <<"work">>, <<"Work">> >>

\* A theme of the word-frequency path that ends in a comma is in no key.
C14_AbsentThemeReached ==
    /\ Analyzed
    /\ \E k \in 1..Len(last.ret.themes) :
          /\ last.ret.themes[k] = <<"deadline,">>
          /\ last.ret.themes[k] \notin DOMAIN last.ret.highlighted_phrases

SentimentLabels == {"POSITIVE", "NEGATIVE", "NEUTRAL"}
SentimentInRange(r) ==
    /\ r.label \in SentimentLabels
    /\ r.score \in (-Scale)..Scale
    /\ r.confidence \in 0..Scale
ScoresInRange(scores) == \A k \in 1..Len(scores) : scores[k].score \in 0..Scale

\* C15: on every sentiment tier (transformer, lexicon, terminal fallback,
\* trained classifier) the label is POSITIVE, NEGATIVE or NEUTRAL, the score is
\* in [-1,1] and the confidence in [0,1]; on every emotion tier every value of
\* emotion_scores is in [0,1]; for every text, the empty one included.
C15_FieldRanges ==
    /\ Analyzed => /\ SentimentInRange(last.ret.sentiment)
                   /\ ScoresInRange(last.ret.emotion.emotion_scores)
    /\ Returned("sentiment") => SentimentInRange(last.ret)
    /\ (Returned("emotion") /\ ~last.ret.raised) =>
          ScoresInRange(last.ret.emotion_scores)
    /\ Returned("predict_sentiment") => SentimentInRange(last.ret)
    /\ Returned("predict_emotion") => ScoresInRange(last.ret.emotion_scores)

\* The keyword tier's cap acts: one keyword in a one-word text scores 1.0.
C15_Witness ==
    /\ Returned("emotion")
    /\ ~last.ret.raised
    /\ last.ret.method = "keywords"
    /\ Len(last.text) = 1
    /\ Scale \in Values(last.ret.emotion_scores)

\* persistence fails: no client, an exception of the insert, or no row back
PersistenceFails(db) == db.client = "throws" \/ db.insert \in {"no_row", "throws"}
GenericDetails == {"Internal server error", "Failed to save journal entry"}

ReadOnlyCalls ==
    {"analyze_text", "sentiment", "emotion", "predict_sentiment", "predict_emotion"}

\* C17: no analyze_text, sentiment, emotion, predict_sentiment or
\* predict_emotion call writes a model handle or other process-wide state,
\* also when a loaded model throws during the call; and under every
\* interleaving of two concurrent analyze_text calls each call returns what it
\* returns when run alone.
C17_NoSharedWrites ==
    /\ [][(last'.op \in ReadOnlyCalls \/ threads' # threads) => Env' = Env]_vars
    /\ [](\A i \in DOMAIN threads :
             threads[i].pc = "done" => threads[i].ret = threads[i].alone)

\* One call's transformer threw and it got the fallback; the other call, run
\* to its end beside it, still got the transformer's answer.
C17_Witness ==
    /\ threads # <<>>
    /\ sentiment_pipeline
    /\ \A i \in DOMAIN threads : threads[i].pc = "done" /\ ~threads[i].ret.raised
    /\ threads[1].ext.hfSent.throws
    /\ threads[1].ret.sentiment.method = "fallback"
    /\ threads[2].ret.sentiment.method = "huggingface"

\* C18 as stated: a lower tier's result is returned only when the tier above
\* it has no model in the process, never after an available tier threw during
\* the call.
C18_OneTierPerCall ==
    /\ (Returned("emotion") /\ ~last.ret.raised /\ last.ret.method = "keywords") =>
          ~emotion_pipeline
    /\ (Returned("sentiment") /\ last.ret.method = "vader") => ~sentiment_pipeline
    /\ (Analyzed /\ last.ret.emotion.method = "keywords") => ~emotion_pipeline
    /\ (Analyzed /\ last.ret.sentiment.method = "vader") => ~sentiment_pipeline

\* no keyword of any emotion occurs in the text
NoKeywordMatch(text) ==
    \A e \in DOMAIN EMOTION_KEYWORDS :
        \A kw \in EMOTION_KEYWORDS[e] : ~Occurs(kw, LowerAll(text))

\* C19 as stated: on the keyword tier a text matching no keyword of any
\* emotion (the empty text included) gets primary_emotion "neutral" with
\* emotion_scores["neutral"] = 0.5.
C19_NeutralDefault ==
    (Returned("emotion") /\ ~last.ret.raised /\ last.ret.method = "keywords"
       /\ NoKeywordMatch(last.text)) =>
        /\ last.ret.primary_emotion = "neutral"
        /\ [label |-> "neutral", score |-> 500] \in
              {last.ret.emotion_scores[k] : k \in 1..Len(last.ret.emotion_scores)}

\* The domain whose hit count is strictly above both others, "general" if
\* there is none.
StrictlyHighestDomain(text) ==
    LET text_lower == LowerAll(text)
        count == [work |-> HitCount(domain_work_keywords, text_lower),
                  relationships |-> HitCount(domain_relationship_keywords, text_lower),
                  health |-> HitCount(domain_health_keywords, text_lower)]
        winners == {d \in DOMAIN count :
                       \A o \in DOMAIN count \ {d} : count[d] > count[o]}
    IN  IF winners = {} THEN "general" ELSE CHOOSE d \in winners : TRUE

\* C20 as stated: get_life_domain returns the domain with the strictly
\* highest keyword hit count and "general" on every tie for the maximum and
\* when all counts are zero.
C20_StrictlyHighest ==
    Returned("generate_personalized_suggestions") =>
        last.ret.domain = StrictlyHighestDomain(last.text)

\* the band table as documented
DocumentedIntensity(mood_score, emotion_confidence) ==
    IF mood_score <= 3 \/ mood_score >= 8
    THEN (IF emotion_confidence > 700 THEN "intense" ELSE "moderate")
    ELSE IF mood_score \in {4, 5, 6, 7} THEN "moderate"
    ELSE "mild"

\* C21 as stated: mood_score <= 3 or >= 8 gives "intense" with a confidence
\* above 0.7 and "moderate" otherwise; mood_score in {4,5,6,7} gives
\* "moderate"; anything else "mild".
C21_DocumentedBands ==
    Returned("generate_personalized_suggestions") =>
        last.ret.intensity =
            DocumentedIntensity(last.ext.mood_score, last.ext.emotion_confidence)

\* C21 (amended): for every mood_score in 0..10 and confidence in [0,1],
\* mood_score <= 3 or >= 8 gives "intense" with a confidence above 0.7 and
\* "moderate" otherwise; mood_score in {4,5,7} gives "moderate"; mood_score 6
\* gives "mild".
C21_IntensityBands ==
    Returned("generate_personalized_suggestions") =>
        LET mood_score == last.ext.mood_score
            confident == last.ext.emotion_confidence > 700
        IN  last.ret.intensity =
                CASE mood_score \in {0, 1, 2, 3, 8, 9, 10} /\ confident -> "intense"
                  [] mood_score \in {0, 1, 2, 3, 8, 9, 10} /\ ~confident -> "moderate"
                  [] mood_score \in {4, 5, 7} -> "moderate"
                  [] mood_score = 6 -> "mild"

\* The middle of the scale is mild, whatever the confidence.
C21_Witness ==
    /\ Returned("generate_personalized_suggestions")
    /\ last.ext.mood_score = 6
    /\ last.ext.emotion_confidence = 1000
    /\ last.ret.intensity = "mild"

\* C22 as stated: for every emotion, every detected domain ("general"
\* included) and every intensity, the list generate_personalized_suggestions
\* returns holds no suggestion twice.
C22_NoDuplicates ==
    Returned("generate_personalized_suggestions") =>
        \A i, j \in 1..Len(last.ret.suggestions) :
            i # j => last.ret.suggestions[i] # last.ret.suggestions[j]

\* C23 as stated: a primary_emotion that is not a key of the emoji/suggestion
\* table gets the "neutral" entry's emoji from emotion() and the "neutral"
\* entry's suggestions as the base suggestions of generate_suggestions.
C23_NeutralEntryFallback ==
    Analyzed =>
        LET table == load_emoji_map(last.ext.emojiFile).map
            primary_emotion == last.ret.emotion.primary_emotion
        IN  (primary_emotion \notin DOMAIN table /\ "neutral" \in DOMAIN table) =>
                /\ last.ret.emotion.emoji = table.neutral.emoji
                /\ Take(last.ret.suggestions, Len(table.neutral.suggestions))
                      = table.neutral.suggestions

\* the base suggestions of a result: the table entry's, or the fixed three
BaseOf(emojiFile, primary_emotion) ==
    LET table == load_emoji_map(emojiFile).map
    IN  IF primary_emotion \in DOMAIN table
           /\ "suggestions" \in DOMAIN table[primary_emotion]
        THEN table[primary_emotion].suggestions
        ELSE DefaultSuggestions

\* a keyword of the group occurs in one of the themes
GroupHit(themes, keywords) ==
    \E k \in 1..Len(themes) : \E i \in 1..Len(themes[k]) :
        KeywordsIn(Lower(themes[k][i])) \cap keywords # {}

\* the third keyword group the claim names
ClaimedSchoolKeywords == {"school"}

\* C24 as stated: three keyword groups (work/career, relationships, school)
\* each add one suggestion when hit, after the base suggestions, and the
\* first 5 of the concatenation are returned.
C24_ThreeGroups ==
    Analyzed =>
        LET base == BaseOf(last.ext.emojiFile, last.ret.emotion.primary_emotion)
            hits == Cardinality({g \in {work_keywords, relationship_keywords,
                                        ClaimedSchoolKeywords} :
                                    GroupHit(last.ret.themes, g)})
        IN  /\ Len(last.ret.suggestions) = Min(5, Len(base) + hits)
            /\ Take(last.ret.suggestions, Len(base)) = Take(base, 5)

\* C24 (amended): generate_suggestions scans the joined theme text against
\* two fixed keyword groups (work/career, relationships), appends exactly one
\* suggestion for each group that is hit, after the base suggestions, and
\* returns the first 5 entries of that concatenation, base suggestions first.
C24_TwoGroups ==
    Analyzed =>
        LET base == BaseOf(last.ext.emojiFile, last.ret.emotion.primary_emotion)
            appended ==
                (IF GroupHit(last.ret.themes, work_keywords)
                 THEN <<"Consider taking a short break from work tasks">> ELSE <<>>)
                \o (IF GroupHit(last.ret.themes, relationship_keywords)
                    THEN <<"Reach out to someone you care about">> ELSE <<>>)
            all == base \o appended
        IN  last.ret.suggestions = SubSeq(all, 1, Min(5, Len(all)))

\* Both groups are hit: three base suggestions, then the two appended ones.
C24_Witness ==
    /\ Analyzed
    /\ Len(last.ret.suggestions) = 5
    /\ last.ret.suggestions[4] = "Consider taking a short break from work tasks"
    /\ last.ret.suggestions[5] = "Reach out to someone you care about"

\* C25 as stated: on the ranked-phrase path extract_themes returns the first
\* top_n of the ranked phrases longer than 3 characters, in rank order, so
\* exactly top_n themes whenever that many ranked phrases are long enough.
C25_TopNAmongLong ==
    (Analyzed /\ last.ext.rake # "throws") =>
        LET long == SelectLonger(RankedPhrases(last.text, last.ext.rake), 3)
        IN  /\ last.ret.themes = SubSeq(long, 1, Min(5, Len(long)))
            /\ Len(long) >= 5 => Len(last.ret.themes) = 5

\* the label the thresholds give a value in thousandths
ThresholdLabel(x) ==
    IF x >= 50 THEN "POSITIVE" ELSE IF x <= -50 THEN "NEGATIVE" ELSE "NEUTRAL"

\* C26 as stated: in every lexicon-tier result the label agrees with the
\* returned score under the thresholds (>= +0.05 POSITIVE, <= -0.05
\* NEGATIVE, otherwise NEUTRAL).
C26_LabelAgreesWithScore ==
    (Returned("sentiment") /\ last.ret.method = "vader") =>
        last.ret.label = ThresholdLabel(last.ret.score)

\* C26 (amended): on the lexicon tier the label is obtained from the compound
\* score by the thresholds (>= +0.05 POSITIVE, <= -0.05 NEGATIVE, otherwise
\* NEUTRAL), the returned confidence is |compound| and the returned score the
\* compound, both rounded to three decimals; so the label agrees with the
\* returned score under the same thresholds except that a returned score of
\* exactly +0.05 or -0.05 may carry NEUTRAL.
C26_LexiconTier ==
    (Returned("sentiment") /\ last.ret.method = "vader") =>
        LET compound == last.ext.vader.score
        IN  /\ last.ret.label =
                  (IF 10 * compound >= RawScale \div 2 THEN "POSITIVE"
                   ELSE IF 10 * compound <= -(RawScale \div 2) THEN "NEGATIVE"
                   ELSE "NEUTRAL")
            /\ last.ret.score = Round3(compound)
            /\ last.ret.confidence = Round3(Abs(compound))
            /\ \/ last.ret.label = ThresholdLabel(last.ret.score)
               \/ last.ret.label = "NEUTRAL" /\ Abs(last.ret.score) = 50

\* A compound of 0.0496: NEUTRAL, and the returned score is 0.05.
C26_Witness ==
    /\ Returned("sentiment")
    /\ last.ret.method = "vader"
    /\ last.ret.label = "NEUTRAL"
    /\ last.ret.score = 50

\* C27 as stated: every result of a sentiment or emotion tier, the
\* unavailable-model and error returns of predict_sentiment and
\* predict_emotion included, carries a method tag, and models_used names the
\* methods of the returned sentiment and emotion.
C27_MethodTag ==
    /\ Returned("sentiment") => "method" \in DOMAIN last.ret
    /\ (Returned("emotion") /\ ~last.ret.raised) => "method" \in DOMAIN last.ret
    /\ Returned("predict_sentiment") => "method" \in DOMAIN last.ret
    /\ Returned("predict_emotion") => "method" \in DOMAIN last.ret
    /\ Analyzed =>
          /\ last.ret.metadata.models_used.sentiment = last.ret.sentiment.method
          /\ last.ret.metadata.models_used.emotion = last.ret.emotion.method

\* the probability of the class labelled POSITIVE
PositiveProbability(answer) ==
    LET at == {k \in 1..Len(answer.classes) : answer.classes[k] = "POSITIVE"}
    IN  answer.probas[CHOOSE k \in at : TRUE]

\* C28: with the trained sentiment model loaded, for every class-probability
\* vector predict_sentiment returns confidence = the largest class probability
\* and score = (P(POSITIVE) - 0.5) * 2 (each rounded to three decimals); the
\* score is in [-1,1], a probability of 0.5 gives score 0, and the label is
\* POSITIVE only if score >= 0 and NEGATIVE only if score <= 0.
C28_TrainedSentiment ==
    (Returned("predict_sentiment") /\ sentiment_model /\ ~last.ext.throws) =>
        LET p == PositiveProbability(last.ext)
        IN  /\ \A k \in 1..Len(last.ext.probas) :
                  Round3(last.ext.probas[k]) <= last.ret.confidence
            /\ \E k \in 1..Len(last.ext.probas) :
                  Round3(last.ext.probas[k]) = last.ret.confidence
            /\ last.ret.score = Round3(2 * p - RawScale)
            /\ last.ret.score \in (-Scale)..Scale
            /\ 2 * p = RawScale => last.ret.score = 0
            /\ last.ret.label = "POSITIVE" => last.ret.score >= 0
            /\ last.ret.label = "NEGATIVE" => last.ret.score <= 0

\* Both classes at 0.5: score 0, confidence 0.5, the first class as label.
C28_Witness ==
    /\ Returned("predict_sentiment")
    /\ sentiment_model
    /\ ~last.ext.throws
    /\ last.ret.score = 0
    /\ last.ret.confidence = 500
    /\ last.ret.label = "NEGATIVE"

\* the strings of INTENSITY_MODIFIERS
IntensityStrings ==
    UNION {{INTENSITY_MODIFIERS[i][k] : k \in 1..Len(INTENSITY_MODIFIERS[i])} :
              i \in DOMAIN INTENSITY_MODIFIERS}

\* the domain and general strings of one emotion's table entry
TableStrings(e) ==
    UNION {{SUGGESTIONS_DATABASE[e][d][k] : k \in 1..Len(SUGGESTIONS_DATABASE[e][d])} :
              d \in DOMAIN SUGGESTIONS_DATABASE[e]}

\* C29: generate_personalized_suggestions returns an INTENSITY_MODIFIERS
\* suggestion if and only if the normalized emotion has no table entry for the
\* detected life domain; when the domain is "general" or the emotion has an
\* entry for it, the 5 returned suggestions are all domain/general ones.
C29_IntensityOnlyWithoutDomain ==
    Returned("generate_personalized_suggestions") =>
        LET r == last.ret
            e == Normalized(r.emotion)
            has_entry == r.domain \in DOMAIN SUGGESTIONS_DATABASE[e]
            shown == {r.suggestions[k] : k \in 1..Len(r.suggestions)}
        IN  /\ (shown \cap IntensityStrings # {}) <=> ~has_entry
            /\ r.domain = "general" => has_entry
            /\ has_entry =>
                  /\ Len(r.suggestions) = 5
                  /\ shown \subseteq TableStrings(e)

\* Joy in a work entry, intense: no work entry for joy, and the fourth
\* suggestion is an intensity one.
C29_Witness ==
    /\ Returned("generate_personalized_suggestions")
    /\ Normalized(last.ret.emotion) = "joy"
    /\ last.ret.domain = "work"
    /\ last.ret.intensity = "intense"
    /\ Len(last.ret.suggestions) = 5
    /\ last.ret.suggestions[4] = INTENSITY_MODIFIERS.intense[1]

\* the keyword-tier labels outside the suggestion taxonomy
KeywordOnlyLabels == {"happy", "sad", "angry", "anxious", "calm", "surprise"}

\* C30: in analyze_journal with the keyword emotion tier in use,
\* crisis_resources is attached only when primary_emotion is "fear"; the
\* labels happy, sad, angry, anxious, calm and surprise are normalized to
\* neutral and never yield crisis_resources; and the key is absent from the
\* response whenever the value is null.
C30_KeywordTierCrisis ==
    (Returned("analyze_journal") /\ last.ret.status = 200) =>
        LET a == last.ret.body.analysis
            attached == "crisis_resources" \in DOMAIN a
        IN  /\ attached => a["crisis_resources"] = CRISIS_RESOURCES
            /\ a["emotion"].method = "keywords" =>
                  /\ attached => a["emotion"].primary_emotion = "fear"
                  /\ a["emotion"].primary_emotion \in KeywordOnlyLabels =>
                        /\ Normalized(a["emotion"].primary_emotion) = "neutral"
                        /\ ~attached

\* A keyword-tier "fear" entry of low mood: the crisis block is attached.
C30_Witness ==
    /\ Returned("analyze_journal")
    /\ last.ret.status = 200
    /\ last.ret.body.analysis["emotion"].method = "keywords"
    /\ last.ret.body.analysis["emotion"].primary_emotion = "fear"
    /\ last.ret.body.analysis["emotion_intensity"] = "intense"
    /\ "crisis_resources" \in DOMAIN last.ret.body.analysis
    /\ last.ret.body.analysis["crisis_resources"] = CRISIS_RESOURCES

\* A keyword-tier "sad" entry as intense as can be carries no crisis block.
C30_IntenseSadReached ==
    /\ Returned("analyze_journal")
    /\ last.ret.status = 200
    /\ last.ret.body.analysis["emotion"].method = "keywords"
    /\ last.ret.body.analysis["emotion"].primary_emotion = "sad"
    /\ last.ret.body.analysis["emotion_intensity"] = "intense"
    /\ "crisis_resources" \notin DOMAIN last.ret.body.analysis

====
